---- MODULE Spec2Model ----
(***************************************************************************)
(* Photobooth API (backend/app/main.py): registration, login, bearer       *)
(* tokens, e-mail verification, password reset and per-user photo storage. *)
(*                                                                         *)
(* Time is counted in minutes.  An e-mail address is a sequence of         *)
(* characters so that the normalisation done by the EmailStr schema type   *)
(* can be computed.  A JWT is the pair of its claim set and the key that   *)
(* signed it.  A bcrypt hash is the triple algorithm / salt / digest.      *)
(*                                                                         *)
(* The failures modelled are the ones the handlers catch themselves: the   *)
(* try block of the insert in register and the try block of the file copy  *)
(* in upload_photo.  Requests are handled one at a time.                   *)
(***************************************************************************)
EXTENDS Integers, Sequences, FiniteSets, TLC

VARIABLES
    users,      \* table "user": sequence of rows, row i has id i
    photos,     \* table "photo": set of rows
    files,      \* names of the files in UPLOAD_DIR
    now,        \* datetime.utcnow(), in minutes
    tokens,     \* tokens clients still hold, each handed out in a response
    req,        \* the last request
    resp        \* the response to it

vars == <<users, photos, files, now, tokens, req, resp>>

----------------------------------------------------------------------------
(* Bounds of the model *)

MaxTokens == 2      \* tokens the clients keep at any one time
MaxNow == 60        \* the clock is advanced only while now <= MaxNow
MaxPhotoId == 2     \* photo rows are inserted while the next id <= MaxPhotoId

(* Inputs *)

RawEmails == { <<"a", "@", "x">>, <<"a", "@", "X">>, <<"b", "@", "x">> }
Passwords == { "pw1", "pw2" }
Salts == { "s1", "s2" }
OneSalt == { "s1" }
OneEmail == { <<"a", "@", "x">> }
TwoEmails == { <<"a", "@", "x">>, <<"b", "@", "x">> }
DbOutcomes == { "ok", "commit raises", "refresh raises" }
TickSteps == { 60, 24 * 60 }
ContentTypes == { "image/jpeg", "text/plain" }
FileNames == { "f1", "f2", "f3" }
PhotoIds == 1 .. (MaxPhotoId + 1)
Pages == { <<0, 20>>, <<1, 1>> }

----------------------------------------------------------------------------
(* CONFIG *)

SECRET_KEY == "your-super-secret-key-change-this-in-production-123"
ACCESS_TOKEN_EXPIRE_MINUTES == 60
VERIFY_TOKEN_EXPIRE_MINUTES == 24 * 60
RESET_TOKEN_EXPIRE_MINUTES == 1 * 60

HTTP_200_OK == 200
HTTP_400_BAD_REQUEST == 400
HTTP_401_UNAUTHORIZED == 401
HTTP_404_NOT_FOUND == 404
HTTP_500_INTERNAL_SERVER_ERROR == 500

allowed_types == { "image/jpeg", "image/png", "image/gif", "image/webp" }

----------------------------------------------------------------------------
(* SCHEMAS: EmailStr keeps the local part and lower-cases the rest *)

Lower(c) ==
    CASE c = "A" -> "a"
      [] c = "B" -> "b"
      [] c = "X" -> "x"
      [] OTHER -> c

AtIndex(e) == CHOOSE i \in 1 .. Len(e) : e[i] = "@" /\ \A j \in 1 .. (i - 1) : e[j] # "@"

EmailStr(e) == [i \in 1 .. Len(e) |-> IF i < AtIndex(e) THEN e[i] ELSE Lower(e[i])]

----------------------------------------------------------------------------
(* HELPER FUNCTIONS *)

\* passlib bcrypt: the digest is a function of the salt and the password
get_password_hash(password, salt) ==
    [alg |-> "bcrypt", salt |-> salt, digest |-> <<salt, password>>]

verify_password(plain_password, hashed_password) ==
    hashed_password.digest = <<hashed_password.salt, plain_password>>

\* jwt.encode of data updated with "exp"
create_access_token(data, expires_delta) ==
    [claims |-> [k \in DOMAIN data \cup {"exp"} |->
                    IF k = "exp" THEN now + expires_delta ELSE data[k]],
     key |-> SECRET_KEY]

\* Mutant: the expiry claim is not looked at
decode_token_NoExpiry(token) ==
    IF token.key # SECRET_KEY THEN <<>> ELSE <<token.claims>>

\* jwt.decode checks the signature, then rejects a claim set whose exp < now.
\* The result is a sequence: <<payload>>, or <<>> for None.
decode_token(token) ==
    IF token.key # SECRET_KEY THEN <<>>
    ELSE IF "exp" \in DOMAIN token.claims /\ token.claims.exp < now THEN <<>>
    ELSE <<token.claims>>

\* dict.get: <<>> stands for None
Get(payload, k) == IF k \in DOMAIN payload THEN payload[k] ELSE <<>>

\* select(User).where(User.email == email).first(): <<row>>, or <<>> for None
get_user_by_email(email) == SelectSeq(users, LAMBDA u : u.email = email)

\* OAuth2PasswordBearer, then get_current_user.  bearer is <<>> when the
\* request has no Authorization header, else <<token>>.
\* The result is <<user row>>, or <<>> when 401 is raised.
get_current_user(bearer) ==
    IF bearer = <<>> THEN <<>>
    ELSE LET payload == decode_token(bearer[1]) IN
         IF payload = <<>> THEN <<>>
         ELSE LET email == Get(payload[1], "sub") IN
              IF email = <<>> THEN <<>>
              ELSE get_user_by_email(email)

credentials_exception(op, bearer) ==
    [op |-> op, status |-> HTTP_401_UNAUTHORIZED,
     body |-> [detail |-> IF bearer = <<>> THEN "Not authenticated"
                          ELSE "Could not validate credentials"]]

HTTPException(op, status_code, detail) ==
    [op |-> op, status |-> status_code, body |-> [detail |-> detail]]

\* A response that carries a token puts it in the caller's hands; the caller
\* keeps it (keep) or drops it, and keeps at most MaxTokens.
Hold(token, keep) ==
    tokens' = IF keep /\ Cardinality(tokens \cup {token}) <= MaxTokens
              THEN tokens \cup {token} ELSE tokens

\* Tokens a client can sign itself, not knowing SECRET_KEY
ForgedAccess ==
    { [claims |-> [sub |-> e, exp |-> now + ACCESS_TOKEN_EXPIRE_MINUTES],
       key |-> "not-the-secret"] : e \in OneEmail }

ForgedTyped ==
    { [claims |-> [sub |-> e, type |-> t,
                   exp |-> now + ACCESS_TOKEN_EXPIRE_MINUTES],
       key |-> "not-the-secret"] : e \in OneEmail,
                                   t \in {"email_verification", "password_reset"} }

\* The Authorization header: absent, or "Bearer <token>"
Bearers(T) == {<<>>} \cup { <<t>> : t \in T }

----------------------------------------------------------------------------
(* ROUTES: auth *)

\* Mutant: the e-mail is not looked up first, so that a duplicate is only
\* stopped by the unique index when the row is committed
register_NoLookup(email_in, password, salt, db, keep) ==
    LET user == [id |-> Len(users) + 1, email |-> EmailStr(email_in),
                 hashed_password |-> get_password_hash(password, salt),
                 is_active |-> TRUE, is_verified |-> FALSE]
        verify_token == create_access_token(
                            [sub |-> user.email, type |-> "email_verification"],
                            VERIFY_TOKEN_EXPIRE_MINUTES)
    IN  /\ req' = [op |-> "register", email |-> email_in, password |-> password]
        /\ IF db # "ok" \/ get_user_by_email(user.email) # <<>>
           THEN /\ resp' = HTTPException("register", HTTP_500_INTERNAL_SERVER_ERROR,
                                         "Failed to create user")
                /\ users' = IF db = "refresh raises" /\ get_user_by_email(user.email) = <<>>
                            THEN Append(users, user) ELSE users
                /\ UNCHANGED <<photos, files, now, tokens>>
           ELSE /\ users' = Append(users, user)
                /\ resp' = [op |-> "register", status |-> HTTP_200_OK,
                            body |-> [id |-> user.id, email |-> user.email,
                                      is_verified |-> user.is_verified,
                                      verify_token |-> verify_token]]
                /\ Hold(verify_token, keep)
                /\ UNCHANGED <<photos, files, now>>

\* POST /register.  db tells how the try block of the insert ends: both
\* session.commit() and session.refresh(user) succeed, commit raises (nothing
\* is stored), or refresh raises (the row is stored already; the rollback of
\* the except branch has nothing to undo).
register(email_in, password, salt, db, keep) ==
    LET email == EmailStr(email_in)
        existing_user == get_user_by_email(email)
        user == [id |-> Len(users) + 1, email |-> email,
                 hashed_password |-> get_password_hash(password, salt),
                 is_active |-> TRUE, is_verified |-> FALSE]
        verify_token == create_access_token(
                            [sub |-> user.email, type |-> "email_verification"],
                            VERIFY_TOKEN_EXPIRE_MINUTES)
    IN  /\ req' = [op |-> "register", email |-> email_in, password |-> password]
        /\ IF existing_user # <<>>
           THEN /\ resp' = HTTPException("register", HTTP_400_BAD_REQUEST,
                                         "Email already registered")
                /\ UNCHANGED <<users, photos, files, now, tokens>>
           ELSE IF db # "ok"
           THEN /\ resp' = HTTPException("register", HTTP_500_INTERNAL_SERVER_ERROR,
                                         "Failed to create user")
                /\ users' = IF db = "refresh raises" THEN Append(users, user) ELSE users
                /\ UNCHANGED <<photos, files, now, tokens>>
           ELSE /\ users' = Append(users, user)
                /\ resp' = [op |-> "register", status |-> HTTP_200_OK,
                            body |-> [id |-> user.id, email |-> user.email,
                                      is_verified |-> user.is_verified,
                                      verify_token |-> verify_token]]
                /\ Hold(verify_token, keep)
                /\ UNCHANGED <<photos, files, now>>

\* Mutant: the active flag is tested before the password
LoginOutcome_ActiveFirst(op, email, password) ==
    LET user == get_user_by_email(email) IN
        IF user # <<>> /\ ~user[1].is_active
        THEN HTTPException(op, HTTP_400_BAD_REQUEST, "Account is deactivated")
        ELSE IF user = <<>> \/ ~verify_password(password, user[1].hashed_password)
        THEN HTTPException(op, HTTP_400_BAD_REQUEST, "Incorrect email or password")
        ELSE [op |-> op, status |-> HTTP_200_OK,
              body |-> [access_token |-> create_access_token(
                                            [sub |-> user[1].email],
                                            ACCESS_TOKEN_EXPIRE_MINUTES),
                        token_type |-> "bearer"]]

\* Mutant: the active flag is not tested
LoginOutcome_NoActiveCheck(op, email, password) ==
    LET user == get_user_by_email(email) IN
        IF user = <<>> \/ ~verify_password(password, user[1].hashed_password)
        THEN HTTPException(op, HTTP_400_BAD_REQUEST, "Incorrect email or password")
        ELSE [op |-> op, status |-> HTTP_200_OK,
              body |-> [access_token |-> create_access_token(
                                            [sub |-> user[1].email],
                                            ACCESS_TOKEN_EXPIRE_MINUTES),
                        token_type |-> "bearer"]]

\* The body shared by /login and /login-json, from the looked-up key on
LoginOutcome(op, email, password) ==
    LET user == get_user_by_email(email) IN
        IF user = <<>> \/ ~verify_password(password, user[1].hashed_password)
        THEN HTTPException(op, HTTP_400_BAD_REQUEST, "Incorrect email or password")
        ELSE IF ~user[1].is_active
        THEN HTTPException(op, HTTP_400_BAD_REQUEST, "Account is deactivated")
        ELSE [op |-> op, status |-> HTTP_200_OK,
              body |-> [access_token |-> create_access_token(
                                            [sub |-> user[1].email],
                                            ACCESS_TOKEN_EXPIRE_MINUTES),
                        token_type |-> "bearer"]]

\* POST /login: OAuth2PasswordRequestForm, the username is used as typed
login(username, password, keep) ==
    /\ req' = [op |-> "login", username |-> username, password |-> password]
    /\ resp' = LoginOutcome("login", username, password)
    /\ IF resp'.status = HTTP_200_OK
       THEN Hold(resp'.body.access_token, keep)
       ELSE UNCHANGED tokens
    /\ UNCHANGED <<users, photos, files, now>>

\* POST /login-json: UserLogin, the email is an EmailStr
login_json(email_in, password, keep) ==
    /\ req' = [op |-> "login_json", email |-> email_in, password |-> password]
    /\ resp' = LoginOutcome("login_json", EmailStr(email_in), password)
    /\ IF resp'.status = HTTP_200_OK
       THEN Hold(resp'.body.access_token, keep)
       ELSE UNCHANGED tokens
    /\ UNCHANGED <<users, photos, files, now>>

\* GET /users/me
get_current_user_info(bearer) ==
    LET current_user == get_current_user(bearer) IN
    /\ req' = [op |-> "users_me", bearer |-> bearer]
    /\ resp' = IF current_user = <<>>
               THEN credentials_exception("users_me", bearer)
               ELSE [op |-> "users_me", status |-> HTTP_200_OK,
                     body |-> [id |-> current_user[1].id,
                               email |-> current_user[1].email,
                               is_active |-> current_user[1].is_active,
                               is_verified |-> current_user[1].is_verified]]
    /\ UNCHANGED <<users, photos, files, now, tokens>>

\* Mutant: the purpose of the token is not looked at
WrongToken_AnyPurpose(payload, purpose) == payload = <<>>

\* not payload or payload.get("type") != purpose
WrongToken(payload, purpose) ==
    payload = <<>> \/ Get(payload[1], "type") # purpose

\* session.add(user); session.commit() of a row changed in one column
UpdateUser(id, column, value) ==
    users' = [users EXCEPT ![id] = [@ EXCEPT ![column] = value]]

\* POST /verify-email
verify_email(token) ==
    LET payload == decode_token(token) IN
    IF WrongToken(payload, "email_verification")
    THEN /\ req' = [op |-> "verify_email", token |-> token]
         /\ resp' = HTTPException("verify_email", HTTP_400_BAD_REQUEST,
                                  "Invalid or expired verification token")
         /\ UNCHANGED <<users, photos, files, now, tokens>>
    ELSE LET email == Get(payload[1], "sub") IN
         IF email = <<>>
         THEN /\ req' = [op |-> "verify_email", token |-> token]
              /\ resp' = HTTPException("verify_email", HTTP_400_BAD_REQUEST,
                                       "Invalid token")
              /\ UNCHANGED <<users, photos, files, now, tokens>>
         ELSE LET user == get_user_by_email(email) IN
              IF user = <<>>
              THEN /\ req' = [op |-> "verify_email", token |-> token]
                   /\ resp' = HTTPException("verify_email", HTTP_404_NOT_FOUND,
                                            "User not found")
                   /\ UNCHANGED <<users, photos, files, now, tokens>>
              ELSE /\ UpdateUser(user[1].id, "is_verified", TRUE)
                   /\ req' = [op |-> "verify_email", token |-> token]
                   /\ resp' = [op |-> "verify_email", status |-> HTTP_200_OK,
                               body |-> [message |-> "Email verified successfully"]]
                   /\ UNCHANGED <<photos, files, now, tokens>>

\* The response of /reset-password/request
ResetOutcome(email_in) ==
    LET user == get_user_by_email(EmailStr(email_in)) IN
    IF user = <<>>
    THEN [op |-> "request_password_reset", status |-> HTTP_200_OK,
          body |-> [message |-> "If the email exists, a reset link will be sent"]]
    ELSE [op |-> "request_password_reset", status |-> HTTP_200_OK,
          body |-> [message |-> "Password reset token generated",
                    reset_token |-> create_access_token(
                                        [sub |-> user[1].email, type |-> "password_reset"],
                                        RESET_TOKEN_EXPIRE_MINUTES)]]

\* POST /reset-password/request
request_password_reset(email_in, keep) ==
    /\ req' = [op |-> "request_password_reset", email |-> email_in]
    /\ resp' = ResetOutcome(email_in)
    /\ IF "reset_token" \in DOMAIN resp'.body
       THEN Hold(resp'.body.reset_token, keep)
       ELSE UNCHANGED tokens
    /\ UNCHANGED <<users, photos, files, now>>

\* POST /reset-password/confirm
confirm_password_reset(token, new_password, salt) ==
    LET payload == decode_token(token) IN
    IF WrongToken(payload, "password_reset")
    THEN /\ req' = [op |-> "confirm_password_reset", token |-> token, new_password |-> new_password]
         /\ resp' = HTTPException("confirm_password_reset", HTTP_400_BAD_REQUEST,
                                  "Invalid or expired reset token")
         /\ UNCHANGED <<users, photos, files, now, tokens>>
    ELSE LET email == Get(payload[1], "sub") IN
         IF email = <<>>
         THEN /\ req' = [op |-> "confirm_password_reset", token |-> token, new_password |-> new_password]
              /\ resp' = HTTPException("confirm_password_reset",
                                       HTTP_400_BAD_REQUEST, "Invalid token")
              /\ UNCHANGED <<users, photos, files, now, tokens>>
         ELSE LET user == get_user_by_email(email) IN
              IF user = <<>>
              THEN /\ req' = [op |-> "confirm_password_reset", token |-> token, new_password |-> new_password]
                   /\ resp' = HTTPException("confirm_password_reset",
                                            HTTP_404_NOT_FOUND, "User not found")
                   /\ UNCHANGED <<users, photos, files, now, tokens>>
              ELSE /\ UpdateUser(user[1].id, "hashed_password",
                                 get_password_hash(new_password, salt))
                   /\ req' = [op |-> "confirm_password_reset", token |-> token, new_password |-> new_password]
                   /\ resp' = [op |-> "confirm_password_reset",
                               status |-> HTTP_200_OK,
                               body |-> [message |-> "Password reset successfully"]]
                   /\ UNCHANGED <<photos, files, now, tokens>>

----------------------------------------------------------------------------
(* ROUTES: photos *)

Max(S) == CHOOSE x \in S : \A y \in S : y <= x

\* INTEGER PRIMARY KEY: one more than the largest id in the table
NextPhotoId == IF photos = {} THEN 1 ELSE Max({ p.id : p \in photos }) + 1

\* The rows of a set in id order, as the table is scanned
RECURSIVE ById(_)
ById(rows) ==
    IF rows = {} THEN <<>>
    ELSE LET first == CHOOSE r \in rows : \A q \in rows : r.id <= q.id
         IN  <<first>> \o ById(rows \ {first})

\* .offset(skip).limit(limit)
OffsetLimit(s, skip, limit) ==
    SubSeq(s, skip + 1, IF Len(s) < skip + limit THEN Len(s) ELSE skip + limit)

\* select(Photo).where(Photo.user_id == current_user.id)
PhotosOf(user_id) == { p \in photos : p.user_id = user_id }

\* Mutant: the photo is looked up by its id alone
PhotoOf_AnyOwner(photo_id, user_id) == { p \in photos : p.id = photo_id }

\* select(Photo).where(Photo.id == photo_id, Photo.user_id == current_user.id)
PhotoOf(photo_id, user_id) == { p \in photos : p.id = photo_id /\ p.user_id = user_id }

\* POST /photos/upload.  filename is the uuid4 name drawn for the file;
\* write_ok tells whether the copy into UPLOAD_DIR succeeds, and created
\* whether a failed copy had already created the file.
upload_photo(bearer, content_type, filename, write_ok, created) ==
    LET current_user == get_current_user(bearer) IN
    IF current_user = <<>>
    THEN /\ req' = [op |-> "upload_photo", bearer |-> bearer, content_type |-> content_type]
         /\ resp' = credentials_exception("upload_photo", bearer)
         /\ UNCHANGED <<users, photos, files, now, tokens>>
    ELSE IF content_type \notin allowed_types
    THEN /\ req' = [op |-> "upload_photo", bearer |-> bearer, content_type |-> content_type]
         /\ resp' = HTTPException("upload_photo", HTTP_400_BAD_REQUEST,
                                  "Only image files are allowed")
         /\ UNCHANGED <<users, photos, files, now, tokens>>
    ELSE IF ~write_ok
    THEN /\ req' = [op |-> "upload_photo", bearer |-> bearer, content_type |-> content_type]
         /\ resp' = HTTPException("upload_photo", HTTP_500_INTERNAL_SERVER_ERROR,
                                  "Failed to save file")
         /\ files' = IF created THEN files \cup {filename} ELSE files
         /\ UNCHANGED <<users, photos, now, tokens>>
    ELSE LET photo == [id |-> NextPhotoId, user_id |-> current_user[1].id,
                       filename |-> filename] IN
         /\ photo.id <= MaxPhotoId
         /\ files' = files \cup {filename}
         /\ photos' = photos \cup {photo}
         /\ req' = [op |-> "upload_photo", bearer |-> bearer, content_type |-> content_type]
         /\ resp' = [op |-> "upload_photo", status |-> HTTP_200_OK,
                     body |-> [id |-> photo.id, filename |-> photo.filename,
                               url |-> <<"/uploads/", photo.filename>>]]
         /\ UNCHANGED <<users, now, tokens>>

\* GET /photos
list_photos(bearer, skip, limit) ==
    LET current_user == get_current_user(bearer) IN
    /\ req' = [op |-> "list_photos", bearer |-> bearer, skip |-> skip, limit |-> limit]
    /\ resp' =
         IF current_user = <<>>
         THEN credentials_exception("list_photos", bearer)
         ELSE LET rows == OffsetLimit(
                              ById(PhotosOf(current_user[1].id)),
                              skip, limit)
              IN  [op |-> "list_photos", status |-> HTTP_200_OK,
                   body |-> [items |-> [i \in 1 .. Len(rows) |->
                                           [id |-> rows[i].id,
                                            url |-> <<"/uploads/", rows[i].filename>>]]]]
    /\ UNCHANGED <<users, photos, files, now, tokens>>

\* DELETE /photos/{photo_id}
delete_photo(bearer, photo_id) ==
    LET current_user == get_current_user(bearer) IN
    IF current_user = <<>>
    THEN /\ req' = [op |-> "delete_photo", bearer |-> bearer, photo_id |-> photo_id]
         /\ resp' = credentials_exception("delete_photo", bearer)
         /\ UNCHANGED <<users, photos, files, now, tokens>>
    ELSE LET photo == ById(PhotoOf(photo_id, current_user[1].id)) IN
         IF photo = <<>>
         THEN /\ req' = [op |-> "delete_photo", bearer |-> bearer, photo_id |-> photo_id]
              /\ resp' = HTTPException("delete_photo", HTTP_404_NOT_FOUND,
                                       "Photo not found")
              /\ UNCHANGED <<users, photos, files, now, tokens>>
         ELSE /\ files' = files \ {photo[1].filename}
              /\ photos' = photos \ {photo[1]}
              /\ req' = [op |-> "delete_photo", bearer |-> bearer, photo_id |-> photo_id]
              /\ resp' = [op |-> "delete_photo", status |-> HTTP_200_OK,
                          body |-> [message |-> "Photo deleted successfully"]]
              /\ UNCHANGED <<users, now, tokens>>

\* uuid.uuid4().hex is a name no file and no row has
UsedNames == files \cup { p.filename : p \in photos }

\* datetime.utcnow() moves on between two requests
Tick(d) ==
    /\ now <= MaxNow
    /\ now' = now + d
    /\ req' = [op |-> "tick", minutes |-> d]
    /\ resp' = [op |-> "tick", status |-> HTTP_200_OK, body |-> [message |-> "tick"]]
    /\ UNCHANGED <<users, photos, files, tokens>>

----------------------------------------------------------------------------
(* Start-up: init_db creates the tables the database file does not have yet.
   The file is either new, or holds an account an administrator deactivated. *)

DeactivatedRow ==
    [id |-> 1, email |-> <<"b", "@", "x">>,
     hashed_password |-> get_password_hash("pw1", "s1"),
     is_active |-> FALSE, is_verified |-> FALSE]

Init ==
    /\ users \in { <<>>, <<DeactivatedRow>> }
    /\ photos = {}
    /\ files = {}
    /\ now = 0
    /\ tokens = {}
    /\ req = [op |-> "startup"]
    /\ resp = [op |-> "startup", status |-> HTTP_200_OK,
               body |-> [message |-> "Database initialized!"]]

\* The requests of the auth routes: e-mails from E, passwords from P, salts
\* from S, and the tokens the clients hold or those of T
AuthRequests(E, P, S, T) ==
    \/ \E e \in E, p \in P, s \in S, db \in DbOutcomes, k \in BOOLEAN :
          register(e, p, s, db, k)
    \/ \E e \in E, p \in P, k \in BOOLEAN : login(e, p, k)
    \/ \E e \in E, p \in P, k \in BOOLEAN : login_json(e, p, k)
    \/ \E b \in Bearers(tokens \cup T) : get_current_user_info(b)
    \/ \E t \in tokens \cup T : verify_email(t)
    \/ \E e \in E, k \in BOOLEAN : request_password_reset(e, k)
    \/ \E t \in tokens \cup T, p \in P, s \in S : confirm_password_reset(t, p, s)

\* The requests of the photo routes: tokens held or of T, uuid4 names from F,
\* the fate of a file whose copy failed from CR, <<skip, limit>> from L
PhotoRequests(T, F, CR, L) ==
    \/ \E b \in Bearers(tokens \cup T), c \in ContentTypes, f \in F \ UsedNames,
          ok \in BOOLEAN, cr \in CR : upload_photo(b, c, f, ok, cr)
    \/ \E b \in Bearers(tokens \cup T), l \in L : list_photos(b, l[1], l[2])
    \/ \E b \in Bearers(tokens \cup T), i \in PhotoIds : delete_photo(b, i)

\* Accounts: every auth route, at one instant
Next == AuthRequests(RawEmails, Passwords, OneSalt, ForgedAccess \cup ForgedTyped)

Spec == Init /\ [][Next]_vars

\* Expiry: one mailbox, every auth route, and the clock
NextTime ==
    \/ AuthRequests(OneEmail, Passwords, Salts, ForgedAccess \cup ForgedTyped)
    \/ \E d \in TickSteps : Tick(d)

SpecTime == Init /\ [][NextTime]_vars

\* Photos: two accounts that register and log in, and every photo route
NextPhotos ==
    \/ \E e \in TwoEmails, db \in DbOutcomes, k \in BOOLEAN :
          register(e, "pw1", "s1", db, k)
    \/ \E e \in TwoEmails, k \in BOOLEAN : login_json(e, "pw1", k)
    \/ PhotoRequests(ForgedAccess, FileNames, BOOLEAN, Pages)

SpecPhotos == Init /\ [][NextPhotos]_vars

----------------------------------------------------------------------------
(* Properties *)

Signed(t) == t.key = SECRET_KEY
Purpose(t) == Get(t.claims, "type")
Expired(t) == t.claims.exp < now
Known(t) == get_user_by_email(Get(t.claims, "sub")) # <<>>

\* The e-mail a login request is looked up by
LoginKey(q) == IF q.op = "login" THEN q.username ELSE EmailStr(q.email)
IsLogin(q) == q.op \in {"login", "login_json"}

\* The password does not open the account the key names, or the key names none
BadCredentials(key, password) ==
    \/ get_user_by_email(key) = <<>>
    \/ ~verify_password(password, get_user_by_email(key)[1].hashed_password)

\* login(key, password) succeeds now, and the token it returns resolves to
\* the identity with this id and this e-mail
LoginResolves(op, key, password, id, email) ==
    LET out == LoginOutcome(op, key, password) IN
    /\ out.status = HTTP_200_OK
    /\ LET user == get_current_user(<<out.body.access_token>>) IN
       /\ user # <<>>
       /\ user[1].id = id
       /\ user[1].email = email

\* C1: in the state a successful register(e, p) leaves, login(e, p) succeeds
\* by the form and by JSON alike, and the access token it returns resolves to
\* the identity register returned (same id, same e-mail).
C1_RegisterThenLogin ==
    (req.op = "register" /\ resp.status = HTTP_200_OK) =>
        /\ LoginResolves("login", req.email, req.password,
                         resp.body.id, resp.body.email)
        /\ LoginResolves("login_json", EmailStr(req.email), req.password,
                         resp.body.id, resp.body.email)

UniqueEmails ==
    \A i, j \in 1 .. Len(users) : users[i].email = users[j].email => i = j

\* C2: register with an e-mail that an identity already has answers 400
\* "Email already registered" and leaves the user table as it was; after every
\* step no two identities share an e-mail.
C2_DuplicateRegister ==
    [][ /\ UniqueEmails'
        /\ (req'.op = "register"
            /\ (get_user_by_email(req'.email) # <<>>
                \/ get_user_by_email(EmailStr(req'.email)) # <<>>))
           => /\ resp' = HTTPException("register", HTTP_400_BAD_REQUEST,
                                       "Email already registered")
              /\ users' = users ]_vars

C2_Witness ==
    /\ req.op = "register"
    /\ resp.status = HTTP_400_BAD_REQUEST
    /\ get_user_by_email(EmailStr(req.email)) # <<>>
    /\ req.email # EmailStr(req.email)

HashChanged == \E i \in 1 .. Len(users) :
                  users'[i].hashed_password # users[i].hashed_password
VerifiedChanged == \E i \in 1 .. Len(users) :
                      users'[i].is_verified # users[i].is_verified

\* C3: confirm_password_reset presented with a token whose purpose is not
\* password_reset fails and changes no row, verify_email presented with a
\* token whose purpose is not email_verification fails and changes no row;
\* a password hash changes only under a password_reset token and a verified
\* flag only under an email_verification token.
C3_PurposeBinding ==
    [][ /\ (req'.op = "confirm_password_reset"
            /\ Purpose(req'.token) # "password_reset")
           => (resp'.status # HTTP_200_OK /\ users' = users)
        /\ (req'.op = "verify_email"
            /\ Purpose(req'.token) # "email_verification")
           => (resp'.status # HTTP_200_OK /\ users' = users)
        /\ HashChanged => (req'.op = "confirm_password_reset"
                           /\ Purpose(req'.token) = "password_reset")
        /\ VerifiedChanged => (req'.op = "verify_email"
                               /\ Purpose(req'.token) = "email_verification") ]_vars

C3_Witness ==
    /\ req.op = "confirm_password_reset"
    /\ Signed(req.token) /\ ~Expired(req.token) /\ Known(req.token)
    /\ Purpose(req.token) = "email_verification"
    /\ resp.status = HTTP_400_BAD_REQUEST

Protected == {"users_me", "upload_photo", "list_photos", "delete_photo"}

\* C4: a protected request gets past get_current_user only with an access
\* token, the kind login issues: one that carries no email_verification or
\* password_reset purpose.
C4_AccessTokensOnly ==
    (req.op \in Protected /\ resp.status # HTTP_401_UNAUTHORIZED) =>
        /\ req.bearer # <<>>
        /\ Purpose(req.bearer[1]) \notin {"email_verification", "password_reset"}

\* What the caller of /reset-password/request sees
Visible(r) == <<r.status, r.body.message, DOMAIN r.body>>

\* C5: the response to a request_password_reset shows the caller the same
\* status, message and fields as the one an e-mail of the other kind (one
\* registered, the other not) gets in the same store.
C5_SameResetResponse ==
    req.op = "request_password_reset" =>
        \A e \in RawEmails :
            (get_user_by_email(EmailStr(e)) = <<>>)
                # (get_user_by_email(EmailStr(req.email)) = <<>>)
            => Visible(ResetOutcome(e)) = Visible(resp)

\* C6: a login, by the form or by JSON, whose e-mail matches no identity or
\* whose password does not verify answers 400 "Incorrect email or password",
\* the same for both cases and whatever the active flag, hands out no token
\* and changes nothing stored.
C6_SameLoginFailure ==
    [][ (IsLogin(req') /\ BadCredentials(LoginKey(req'), req'.password))
           => /\ resp'.status = HTTP_400_BAD_REQUEST
              /\ resp'.body = [detail |-> "Incorrect email or password"]
              /\ UNCHANGED <<users, photos, files, tokens>> ]_vars

C6_Witness ==
    /\ IsLogin(req)
    /\ get_user_by_email(LoginKey(req)) # <<>>
    /\ ~get_user_by_email(LoginKey(req))[1].is_active
    /\ BadCredentials(LoginKey(req), req.password)
    /\ resp.body = [detail |-> "Incorrect email or password"]

\* C10: a login hands out a token only when an identity matches the e-mail,
\* the password verifies and the identity is active, and the token is an
\* access token whose subject is that identity's e-mail; with the right
\* password for a deactivated identity it answers "Account is deactivated"
\* and hands out nothing.
C10_LoginIssues ==
    [][ IsLogin(req') =>
          LET user == get_user_by_email(LoginKey(req')) IN
          /\ resp'.status = HTTP_200_OK
             => /\ ~BadCredentials(LoginKey(req'), req'.password)
                /\ user[1].is_active
                /\ Signed(resp'.body.access_token)
                /\ Purpose(resp'.body.access_token) = <<>>
                /\ resp'.body.access_token.claims.sub = user[1].email
                /\ tokens' \in {tokens, tokens \cup {resp'.body.access_token}}
          /\ resp'.status # HTTP_200_OK => tokens' = tokens
          /\ (~BadCredentials(LoginKey(req'), req'.password) /\ ~user[1].is_active)
             => resp' = HTTPException(req'.op, HTTP_400_BAD_REQUEST,
                                      "Account is deactivated") ]_vars

C10_Witness ==
    /\ IsLogin(req)
    /\ ~BadCredentials(LoginKey(req), req.password)
    /\ ~get_user_by_email(LoginKey(req))[1].is_active
    /\ resp.body = [detail |-> "Account is deactivated"]

\* The token a request presents, as a sequence: <<>> when it presents none
Presented(q) ==
    IF q.op \in Protected THEN q.bearer
    ELSE IF q.op \in {"verify_email", "confirm_password_reset"} THEN <<q.token>>
    ELSE <<>>

\* C7: a token signed with SECRET_KEY whose expiry instant is before now fails
\* get_current_user with 401 and verify_email and confirm_password_reset with
\* 400, and the request changes no row; the expiry instant of a token is the
\* instant of its issue plus 60 minutes (login), 24 hours (register) or
\* 1 hour (request_password_reset).
C7_ExpiredTokenFails ==
    [][ /\ (Presented(req') # <<>>
            /\ Signed(Presented(req')[1])
            /\ Presented(req')[1].claims.exp < now')
           => /\ resp'.status = IF req'.op \in Protected THEN HTTP_401_UNAUTHORIZED
                                ELSE HTTP_400_BAD_REQUEST
              /\ users' = users
        /\ (IsLogin(req') /\ resp'.status = HTTP_200_OK)
           => resp'.body.access_token.claims.exp = now' + 60
        /\ (req'.op = "register" /\ resp'.status = HTTP_200_OK)
           => resp'.body.verify_token.claims.exp = now' + 24 * 60
        /\ (req'.op = "request_password_reset" /\ "reset_token" \in DOMAIN resp'.body)
           => resp'.body.reset_token.claims.exp = now' + 60 ]_vars

C7_Witness ==
    /\ req.op = "verify_email"
    /\ Signed(req.token) /\ Known(req.token)
    /\ Purpose(req.token) = "email_verification"
    /\ Expired(req.token)
    /\ ~get_user_by_email(req.token.claims.sub)[1].is_verified
    /\ resp.status = HTTP_400_BAD_REQUEST

\* The identity a photo request is made as: <<row>>, or <<>>
Caller(q) == get_current_user(q.bearer)

\* The rows with this id that the caller of q owns
Mine(q) ==
    { p \in photos : /\ p.id = q.photo_id
                     /\ Caller(q) # <<>>
                     /\ p.user_id = Caller(q)[1].id }

\* C8: list_photos returns only rows owned by the identity it is called as;
\* delete_photo removes the row and the file of a photo its caller owns, and
\* for a photo of another identity or an absent id answers 404 and leaves
\* every row and file as it was; no other request removes a row, and an
\* uploaded row is owned by its uploader.
C8_PhotoIsolation ==
    [][ /\ (req'.op = "list_photos" /\ resp'.status = HTTP_200_OK)
           => \A i \in 1 .. Len(resp'.body.items) :
                 \E p \in photos :
                    /\ p.id = resp'.body.items[i].id
                    /\ <<"/uploads/", p.filename>> = resp'.body.items[i].url
                    /\ p.user_id = Caller(req')[1].id
        /\ req'.op = "delete_photo"
           => IF Mine(req') # {}
              THEN /\ resp'.status = HTTP_200_OK
                   /\ photos' = photos \ Mine(req')
                   /\ files' = files \ { p.filename : p \in Mine(req') }
              ELSE /\ resp'.status = IF Caller(req') = <<>> THEN HTTP_401_UNAUTHORIZED
                                     ELSE HTTP_404_NOT_FOUND
                   /\ photos' = photos
                   /\ files' = files
        /\ photos \ photos' # {} => req'.op = "delete_photo"
        /\ photos' \ photos # {}
           => /\ req'.op = "upload_photo"
              /\ \A p \in photos' \ photos : p.user_id = Caller(req')[1].id ]_vars

C8_Witness ==
    /\ req.op = "delete_photo"
    /\ resp.status = HTTP_404_NOT_FOUND
    /\ Caller(req) # <<>>
    /\ \E p \in photos : p.id = req.photo_id /\ p.user_id # Caller(req)[1].id
    /\ \E p \in photos : p.user_id = Caller(req)[1].id

ReadOnly == {"login", "login_json", "users_me", "request_password_reset",
             "upload_photo", "list_photos", "delete_photo", "tick"}

\* C9: no request removes an identity or changes an id, an e-mail or an
\* active flag; a verified flag changes only in a successful verify_email and
\* never back to false; a password hash changes only in a successful
\* confirm_password_reset; a row is added only by a successful register; a
\* failing request, and every login, /users/me, request_password_reset and
\* photo request, leaves the user table as it was.
C9_IdentityFrame ==
    [][ /\ Len(users') >= Len(users)
        /\ \A i \in 1 .. Len(users) :
              /\ users'[i].id = users[i].id
              /\ users'[i].email = users[i].email
              /\ users'[i].is_active = users[i].is_active
              /\ users[i].is_verified => users'[i].is_verified
        /\ VerifiedChanged => (req'.op = "verify_email" /\ resp'.status = HTTP_200_OK)
        /\ HashChanged => (req'.op = "confirm_password_reset"
                           /\ resp'.status = HTTP_200_OK)
        /\ Len(users') > Len(users) => (req'.op = "register"
                                        /\ resp'.status = HTTP_200_OK)
        /\ (resp'.status # HTTP_200_OK \/ req'.op \in ReadOnly) => users' = users ]_vars

====
